---- MODULE Spec2Model ----
(***************************************************************************)
(* pdftex-figures (src/pdftexfigures/main.py): the persisted root store,   *)
(* the conversion trigger with its version-gated inkscape command, and the *)
(* two watch daemons (inotify, and fswatch with threading.Timer debounce). *)
(***************************************************************************)
EXTENDS Integers, Sequences, FiniteSets, TLC

VARIABLES
    \* ---- RootStore (add_root / get_roots) ----
    roots_file,      \* the roots file, as read_text().split("\n") sees it
    cwd,             \* os.getcwd() of the calling process
    initial_file,    \* history: the roots file before any call
    added,           \* history: the arguments add_root was called with
    calls,           \* history: the last two calls, oldest first
    \* ---- convert_svg_to_pdf_tex, version gate ----
    inkscape_version,        \* output of `inkscape --version`, a character sequence
    gate,                    \* what the version gate computed for it
    \* ---- maybe_recompile_figure, one dispatch ----
    t_name,          \* file name of the changed path, a token sequence
    t_env,           \* what the external collaborators will do
    t_result,        \* [status, effects]: what the dispatch did
    \* ---- watch_daemon_fswatch: main loop and Timer threads ----
    pc,              \* the main loop's position
    main_error,      \* the exception that ended the main loop, or "none"
    roots,           \* the snapshot get_roots() returned at line 317
    filepath,        \* the line read at line 327
    pending_timers,  \* path -> Timer (0: no entry)
    timers,          \* every Timer object created, by creation number
    next_timer,      \* how many Timer objects were created
    iter,            \* the iterator of line 333: [used, todo]
    generation,      \* how many times line 335 cleared the table
    since,           \* history: ticks since the path's last event, capped
    last_timer,      \* history: the Timer of the path's last event
    pending_at_rebuild,  \* history: the Timers pending when a rebuild began
    fswatch,         \* the process p of line 321: [running, args]
    \* ---- watch_daemon_inotify ----
    i_pc,            \* the loop's position
    i_cwd,           \* the daemon's working directory
    i_roots,         \* the snapshot get_roots() returned at line 238
    i_watches,       \* the paths with a registered watch
    i_missing,       \* the directories add_watch fails for
    i_result         \* what the last maybe_recompile_figure call did

rootVars == <<roots_file, cwd, initial_file, added, calls>>
gateVars == <<inkscape_version, gate>>
trigVars == <<t_name, t_env, t_result>>
fsVars == <<pc, main_error, roots, filepath, pending_timers, timers, next_timer,
            iter, generation, since, last_timer, pending_at_rebuild,
            fswatch>>
inVars == <<i_pc, i_cwd, i_roots, i_watches, i_missing, i_result>>
vars == <<rootVars, gateVars, trigVars, fsVars, inVars>>

\* what each component leaves alone
notRoots == <<gateVars, trigVars, fsVars, inVars>>
notGate == <<rootVars, trigVars, fsVars, inVars>>
notTrigger == <<rootVars, gateVars, fsVars, inVars>>
notFswatch == <<rootVars, gateVars, trigVars, inVars>>
notInotify == <<rootVars, gateVars, trigVars, fsVars>>

(***************************************************************************)
(* Sequence helpers                                                        *)
(***************************************************************************)
Range(s) == {s[i] : i \in 1..Len(s)}

SeqsUpTo(S, n) == UNION {[1..k -> S] : k \in 0..n}

RECURSIVE Filter(_, _)
\* the elements of s that are in S, in the order of s
Filter(s, S) ==
    IF s = <<>> THEN <<>>
    ELSE IF Head(s) \in S THEN <<Head(s)>> \o Filter(Tail(s), S)
         ELSE Filter(Tail(s), S)

Occurrences(s, x) == Cardinality({i \in 1..Len(s) : s[i] = x})

NoDuplicates(s) == \A i, j \in 1..Len(s) : s[i] = s[j] => i = j

(***************************************************************************)
(* RootStore                                                               *)
(***************************************************************************)
MaxFileLines == 2

Dirs == {"/figs", "/w", "/x"}

\* "\n".join(roots) as split("\n") reads it back: the empty text is one empty line
JoinLines(lines) == IF lines = <<>> THEN <<"">> ELSE lines

\* [root for root in roots_file.read_text().split("\n") if root != ""]
ReadRoots(file) == Filter(file, Range(file) \ {""})

\* get_roots(): the persisted entries, plus the working directory when absent
get_roots(file, dir) ==
    LET ans == ReadRoots(file)
    IN  IF dir \notin Range(ans) THEN Append(ans, dir) ELSE ans

\* add_root(path): the roots file after the call
add_root(file, dir, path) ==
    LET listed == get_roots(file, dir)
    IN  IF path \in Range(listed) THEN file
        ELSE JoinLines(Append(listed, path))

InitialFiles ==
    {f \in SeqsUpTo(Dirs \cup {""}, MaxFileLines) :
        Len(f) >= 1 /\ NoDuplicates(ReadRoots(f))}

Remember(c) == IF Len(calls) < 2 THEN Append(calls, c) ELSE <<calls[2], c>>

InitRoots ==
    /\ roots_file \in InitialFiles
    /\ cwd \in Dirs
    /\ initial_file = roots_file
    /\ added = {}
    /\ calls = <<>>

AddRoot(p) ==
    /\ roots_file' = add_root(roots_file, cwd, p)
    /\ added' = added \cup {p}
    /\ calls' = Remember([op |-> "add_root", arg |-> p, dir |-> cwd,
                          before |-> roots_file, after |-> roots_file',
                          ret |-> <<>>])
    /\ UNCHANGED <<cwd, initial_file, notRoots>>

GetRoots ==
    /\ calls' = Remember([op |-> "get_roots", arg |-> "", dir |-> cwd,
                          before |-> roots_file, after |-> roots_file,
                          ret |-> get_roots(roots_file, cwd)])
    /\ calls' # calls
    /\ UNCHANGED <<roots_file, cwd, initial_file, added, notRoots>>

\* the next command is run from another directory
Chdir(d) ==
    /\ d # cwd
    /\ cwd' = d
    /\ UNCHANGED <<roots_file, initial_file, added, calls, notRoots>>

NextRoots ==
    \/ \E p \in Dirs : AddRoot(p)
    \/ GetRoots
    \/ \E d \in Dirs : Chdir(d)

(***************************************************************************)
(* convert_svg_to_pdf_tex: the version gate                                *)
(***************************************************************************)
MaxVersionLen == 4

Digits == <<"0", "1", "2", "3", "4", "5", "6", "7", "8", "9">>

IsDigit(c) == \E i \in 1..10 : Digits[i] = c

DigitValue(c) == (CHOOSE i \in 1..10 : Digits[i] = c) - 1

\* the characters of the class [0-9.]
InRunClass(c) == IsDigit(c) \/ c = "."

\* re.findall(r"[0-9.]+", s): the first maximal run, <<>> when there is none
FirstRun(s) ==
    IF \A i \in 1..Len(s) : ~InRunClass(s[i]) THEN <<>>
    ELSE LET first == CHOOSE i \in 1..Len(s) :
                        /\ InRunClass(s[i])
                        /\ \A j \in 1..(i - 1) : ~InRunClass(s[j])
             last  == CHOOSE k \in first..Len(s) :
                        /\ \A j \in first..k : InRunClass(s[j])
                        /\ (k = Len(s) \/ ~InRunClass(s[k + 1]))
         IN  SubSeq(s, first, last)

RECURSIVE SplitDots(_)
\* str.split("."): one part per dot plus one, empty parts kept
SplitDots(s) ==
    IF \A i \in 1..Len(s) : s[i] # "." THEN <<s>>
    ELSE LET d == CHOOSE i \in 1..Len(s) :
                    s[i] = "." /\ \A j \in 1..(i - 1) : s[j] # "."
         IN  <<SubSeq(s, 1, d - 1)>> \o SplitDots(SubSeq(s, d + 1, Len(s)))

RECURSIVE IntOf(_)
\* int(part) of a non-empty digit string
IntOf(part) ==
    IF Len(part) = 1 THEN DigitValue(part[1])
    ELSE 10 * IntOf(SubSeq(part, 1, Len(part) - 1)) + DigitValue(part[Len(part)])

\* number + [0] * (3 - len(number))
PadZeros(number) ==
    number \o [i \in 1..(IF Len(number) < 3 THEN 3 - Len(number) ELSE 0) |-> 0]

RECURSIVE ListLessOrEqual(_, _)
\* a <= b where the source compares with <
ListLessOrEqual(a, b) ==
    IF a = <<>> THEN TRUE
    ELSE IF b = <<>> THEN FALSE
    ELSE IF Head(a) # Head(b) THEN Head(a) < Head(b)
    ELSE ListLessOrEqual(Tail(a), Tail(b))

RECURSIVE ListLess(_, _)
\* Python's a < b on lists of integers
ListLess(a, b) ==
    IF a = <<>> THEN b # <<>>
    ELSE IF b = <<>> THEN FALSE
    ELSE IF Head(a) # Head(b) THEN Head(a) < Head(b)
    ELSE ListLess(Tail(a), Tail(b))

\* lines 156-187: the parsed version and the argument layout chosen for it
VersionGate(output) ==
    LET run == FirstRun(output)
    IN  IF run = <<>>
        THEN [status |-> "IndexError", number |-> <<>>, layout |-> "none"]
        ELSE LET parts == SplitDots(run)
             IN  IF \E i \in 1..Len(parts) : parts[i] = <<>>
                 THEN [status |-> "ValueError", number |-> <<>>, layout |-> "none"]
                 ELSE LET number == PadZeros([i \in 1..Len(parts) |-> IntOf(parts[i])])
                      IN  [status |-> "ok", number |-> number,
                           layout |-> IF ListLess(number, <<1, 0, 0>>)
                                      THEN "legacy" ELSE "modern"]

\* the version outputs quoted in the source's comment, lines 153-155
Inkscape_0_92_4 ==
    <<"I","n","k","s","c","a","p","e"," ","0",".","9","2",".","4"," ",
      "(","u","n","k","n","o","w","n",")">>
Inkscape_1_1_dev ==
    <<"I","n","k","s","c","a","p","e"," ","1",".","1","-","d","e","v"," ",
      "(","3","a","9","d","f","5","b","c","c","e",","," ",
      "2","0","2","0","-","0","3","-","1","8",")">>
Inkscape_1_0rc1 ==
    <<"I","n","k","s","c","a","p","e"," ","1",".","0","r","c","1">>

VersionChars == {"0", "1", "9", ".", "r"}

\* a version with four parts, which the padding leaves at length 4
FourParts == <<"v", "1", ".", "0", ".", "0", ".", "1">>

VersionOutputs ==
    SeqsUpTo(VersionChars, MaxVersionLen)
        \cup {Inkscape_0_92_4, Inkscape_1_1_dev, Inkscape_1_0rc1, FourParts}

InitGate ==
    /\ inkscape_version \in VersionOutputs
    /\ gate = [status |-> "pending", number |-> <<>>, layout |-> "none"]

\* convert_svg_to_pdf_tex reaches line 165 or raises before it
RunVersionGate ==
    /\ gate.status = "pending"
    /\ gate' = VersionGate(inkscape_version)
    /\ UNCHANGED <<inkscape_version, notGate>>

NextGate == RunVersionGate


(***************************************************************************)
(* ConversionTrigger: maybe_recompile_figure and what it calls             *)
(***************************************************************************)
MaxNameLen == 3

\* a file name is a sequence of tokens: "." is the dot, the others hold no dot
NameTokens == {"fig", ".", "svg", "afdesign", "txt"}

Names == SeqsUpTo(NameTokens, MaxNameLen)

\* index of the last dot when Path.suffix counts it (not first, not last), else 0
SuffixDot(name) ==
    LET dots == {i \in 1..Len(name) : name[i] = "."}
    IN  IF dots = {} THEN 0
        ELSE LET i == CHOOSE d \in dots : \A e \in dots : e <= d
             IN  IF 1 < i /\ i < Len(name) THEN i ELSE 0

\* Path(name).suffix
suffix(name) ==
    IF SuffixDot(name) = 0 THEN <<>> ELSE SubSeq(name, SuffixDot(name), Len(name))

\* Path(name).stem
stem(name) ==
    IF SuffixDot(name) = 0 THEN name ELSE SubSeq(name, 1, SuffixDot(name) - 1)

DotSvg == <<".", "svg">>
DotAfdesign == <<".", "afdesign">>

\* what the external collaborators do during one dispatch
Envs ==
    [stale_svg : BOOLEAN,                        \* export_path.exists()
     osascript : {"ok", "missing"},              \* subprocess.run(["osascript", ...])
     inkscape  : {"ok", "missing", "nonzero"},   \* the inkscape executable
     version   : {Inkscape_0_92_4, Inkscape_1_1_dev, Inkscape_1_0rc1},
     clipboard : {"ok", "fails"}]                \* pyperclip.copy

Effect(op, file, layout) == [op |-> op, file |-> file, layout |-> layout]

Returned(effects) == [status |-> "returned", effects |-> effects]
Raised(effects) == [status |-> "raised", effects |-> effects]

\* run g after f unless f raised
Then(f, g) == IF f.status = "raised" THEN f
              ELSE [status |-> g.status, effects |-> f.effects \o g.effects]

\* pyperclip.copy(latex_template(name, beautify(name)))
clipboard_copy(name, env) ==
    IF env.clipboard = "fails" THEN Raised(<<>>)
    ELSE Returned(<<Effect("clipboard", name, "none")>>)

\* lines 136-201
convert_svg_to_pdf_tex(file, env) ==
    IF suffix(file) # DotSvg THEN Returned(<<>>)
    ELSE IF env.inkscape = "missing" THEN Raised(<<>>)
    ELSE LET v == VersionGate(env.version)
             query == Effect("inkscape_version", <<>>, "none")
         IN  IF v.status # "ok" THEN Raised(<<query>>)
             ELSE Then(Returned(
                         <<query, Effect("inkscape_export", file, v.layout)>>
                         \o (IF env.inkscape = "nonzero"
                             THEN <<Effect("log_error", file, "none")>>
                             ELSE <<>>)),
                       clipboard_copy(stem(file), env))

\* lines 432-493
afdesign_to_svg(file, env) ==
    LET export_path == stem(file) \o DotSvg
        removed == IF env.stale_svg
                   THEN <<Effect("remove", export_path, "none")>> ELSE <<>>
    IN  IF env.osascript = "missing" THEN Raised(removed)
        ELSE Returned(Append(removed, Effect("osascript", export_path, "none")))

\* maybe_recompile_figure without the extension filter of lines 217-219
maybe_recompile_figure_unfiltered(file, env) ==
    Then(Then(IF suffix(file) = DotAfdesign
              THEN afdesign_to_svg(file, env) ELSE Returned(<<>>),
              IF suffix(file) # DotSvg
              THEN convert_svg_to_pdf_tex(file, env) ELSE Returned(<<>>)),
         clipboard_copy(stem(file), env))

\* lines 204-230
maybe_recompile_figure(file, env) ==
    IF suffix(file) \notin {DotSvg, DotAfdesign} THEN Returned(<<>>)
    ELSE Then(Then(IF suffix(file) = DotAfdesign
                   THEN afdesign_to_svg(file, env) ELSE Returned(<<>>),
                   IF suffix(file) # DotSvg
                   THEN convert_svg_to_pdf_tex(file, env) ELSE Returned(<<>>)),
              clipboard_copy(stem(file), env))

InitTrigger ==
    /\ t_name \in Names
    /\ t_env \in Envs
    /\ t_result = [status |-> "pending", effects |-> <<>>]

\* ConversionTrigger is invoked with a stabilized event's path
Dispatch ==
    /\ t_result.status = "pending"
    /\ t_result' = maybe_recompile_figure(t_name, t_env)
    /\ UNCHANGED <<t_name, t_env, notTrigger>>

NextTrigger == Dispatch

(***************************************************************************)
(* watch_daemon_fswatch: the main loop and the threading.Timer threads.    *)
(* Time is counted in ticks.  The main loop's statements between two reads *)
(* take no tick; a Timer thread may lag behind its deadline by any amount. *)
(***************************************************************************)
\* lines read from fswatch in one run
MaxLines == 3

\* the clock's resolution
TicksPerSecond == 2

\* line 308
debounce_seconds == 1

\* the Timer's interval, in ticks
Delay == debounce_seconds * TicksPerSecond

FigSvg == <<"fig", ".", "svg">>
LogoAfdesign == <<"logo", ".", "afdesign">>
EventPaths == {FigSvg, LogoAfdesign}

\* str(roots_file), the line that asks for a rebuild
RootsFilePath == <<"roots">>

\* the lines fswatch can print: a changed figure, or the roots file
FswatchLines == EventPaths \cup {RootsFilePath}

\* the directory the command line that adds a root is run from, and the
\* roots it is asked to add
CliDir == "/figs"
CliRoots == {"/figs", "/x"}

\* line 67
user_dir == "/Users/marcos/.config/pdftex-figures"

NoPath == <<>>

TimerIds == 1..MaxLines

Unborn ==
    [path |-> NoPath, st |-> "unborn", finished |-> FALSE, remaining |-> 0,
     superseded |-> FALSE, gen |-> 0, invoked_at |-> -1]

\* len(pending_timers)
TableSize(table) == Cardinality({q \in EventPaths : table[q] # 0})

\* pending_timers.values()
TableValues(table) == {table[q] : q \in EventPaths} \ {0}

\* timer.cancel(): sets the Timer's finished event
cancel(ts, t) == [ts EXCEPT ![t].finished = TRUE]

\* line 340 cancelling every pending Timer instead of the path's own
CancelEveryPending(ts, table, path) ==
    [t \in TimerIds |->
        IF t \in TableValues(table) THEN [ts[t] EXCEPT !.finished = TRUE] ELSE ts[t]]

\* line 340: pending_timers[filepath].cancel()
CancelExisting(ts, table, path) == cancel(ts, table[path])

InitFswatch ==
    /\ pc = "build"
    /\ main_error = "none"
    /\ roots = <<>>
    /\ filepath = NoPath
    /\ pending_timers = [q \in EventPaths |-> 0]
    /\ timers = [t \in TimerIds |-> Unborn]
    /\ next_timer = 0
    /\ iter = [used |-> 0, todo |-> {}]
    /\ generation = 0
    /\ since = [q \in EventPaths |-> Delay]
    /\ last_timer = [q \in EventPaths |-> 0]
    /\ pending_at_rebuild = {}
    /\ fswatch = [running |-> FALSE, args |-> <<>>]

\* lines 317-325: snapshot the roots, spawn fswatch over them
Build ==
    /\ pc = "build"
    /\ roots' = get_roots(roots_file, cwd)
    /\ fswatch' = [running |-> TRUE, args |-> Append(roots', user_dir)]
    /\ pc' = "readline"
    /\ UNCHANGED <<main_error, filepath, pending_timers, timers, next_timer, iter,
                   generation, since, last_timer, pending_at_rebuild, notFswatch>>

\* a line that names a figure as the roots file too
is_roots_file_or_fig(line) == line \in {RootsFilePath, FigSvg}

\* line 328: filepath == str(roots_file)
is_roots_file(line) == line = RootsFilePath

\* lines 327-331, 333: the line is the roots file; terminate fswatch, start
\* cancel_all
ReadRootsFile ==
    /\ pc = "readline"
    /\ next_timer + generation < MaxLines
    /\ \E line \in FswatchLines : is_roots_file(line) /\ filepath' = line
    /\ fswatch' = [fswatch EXCEPT !.running = FALSE]
    /\ iter' = [used |-> TableSize(pending_timers),
                todo |-> TableValues(pending_timers)]
    /\ pc' = "cancel_all"
    /\ pending_at_rebuild' =
          pending_at_rebuild \cup TableValues(pending_timers)
            \cup {t \in TimerIds : timers[t].st = "waiting" /\ ~timers[t].finished}
    /\ UNCHANGED <<main_error, roots, pending_timers, timers, next_timer,
                   generation, since, last_timer, notFswatch>>

\* lines 327-328, 338: any other line; an event less than Delay after the path's
\* previous one continues that event's burst
ReadLine(line) ==
    /\ pc = "readline"
    /\ next_timer + generation < MaxLines
    /\ ~is_roots_file(line)
    /\ filepath' = line
    /\ since' = [since EXCEPT ![line] = 0]
    /\ timers' = IF since[line] < Delay /\ last_timer[line] # 0
                 THEN [timers EXCEPT ![last_timer[line]].superseded = TRUE]
                 ELSE timers
    /\ pc' = "check_pending"
    /\ UNCHANGED <<main_error, roots, pending_timers, next_timer, iter, generation,
                   last_timer, pending_at_rebuild, fswatch,
                   notFswatch>>

\* line 339: if filepath in pending_timers
CheckPending ==
    /\ pc = "check_pending"
    /\ pc' = IF pending_timers[filepath] # 0 THEN "cancel_old" ELSE "schedule"
    /\ UNCHANGED <<main_error, roots, filepath, pending_timers, timers, next_timer,
                   iter, generation, since, last_timer, pending_at_rebuild, fswatch,
                   notFswatch>>

\* line 340: pending_timers[filepath].cancel(); KeyError when the entry is gone
CancelOld ==
    /\ pc = "cancel_old"
    /\ IF pending_timers[filepath] = 0
       THEN /\ pc' = "crashed"
            /\ main_error' = "KeyError"
            /\ UNCHANGED timers
       ELSE /\ timers' = CancelExisting(timers, pending_timers, filepath)
            /\ pc' = "schedule"
            /\ UNCHANGED main_error
    /\ UNCHANGED <<roots, filepath, pending_timers, next_timer, iter, generation,
                   since, last_timer, pending_at_rebuild, fswatch,
                   notFswatch>>

\* lines 344-346: create the Timer, store it, start it
Schedule ==
    /\ pc = "schedule"
    /\ next_timer' = next_timer + 1
    /\ timers' = [timers EXCEPT ![next_timer'] =
                    [path |-> filepath, st |-> "waiting", finished |-> FALSE,
                     remaining |-> Delay, superseded |-> FALSE,
                     gen |-> generation, invoked_at |-> -1]]
    /\ pending_timers' = [pending_timers EXCEPT ![filepath] = next_timer']
    /\ last_timer' = [last_timer EXCEPT ![filepath] = next_timer']
    /\ pc' = "readline"
    /\ UNCHANGED <<main_error, roots, filepath, iter, generation, since,
                   pending_at_rebuild, fswatch,
                   notFswatch>>

\* lines 333-334: one next() of the values iterator, and the cancel of what it
\* yields; next() raises RuntimeError when the table's size has changed
CancelAllNext ==
    /\ pc = "cancel_all"
    /\ IF TableSize(pending_timers) # iter.used
       THEN /\ pc' = "crashed"
            /\ main_error' = "RuntimeError"
            /\ UNCHANGED <<timers, iter>>
       ELSE IF iter.todo = {}
       THEN /\ pc' = "clear"
            /\ UNCHANGED <<main_error, timers, iter>>
       ELSE \E t \in iter.todo :
            /\ timers' = cancel(timers, t)
            /\ iter' = [iter EXCEPT !.todo = @ \ {t}]
            /\ UNCHANGED <<pc, main_error>>
    /\ UNCHANGED <<roots, filepath, pending_timers, next_timer, generation, since,
                   last_timer, pending_at_rebuild, fswatch,
                   notFswatch>>

\* lines 335-336: pending_timers.clear(); break
Clear ==
    /\ pc = "clear"
    /\ pending_timers' = [q \in EventPaths |-> 0]
    /\ generation' = generation + 1
    /\ pc' = "build"
    /\ UNCHANGED <<main_error, roots, filepath, timers, next_timer, iter, since,
                   last_timer, pending_at_rebuild, fswatch,
                   notFswatch>>

\* threading.Timer.run: finished.wait(interval) returns, then the is_set test
TimerRun(t) ==
    /\ timers[t].st = "waiting"
    /\ timers[t].remaining = 0 \/ timers[t].finished
    /\ timers' = [timers EXCEPT ![t].st = IF timers[t].finished
                                          THEN "done" ELSE "called",
                                 ![t].remaining = 0]
    /\ UNCHANGED <<pc, main_error, roots, filepath, pending_timers, next_timer, iter,
                   generation, since, last_timer, pending_at_rebuild, fswatch,
                   notFswatch>>

\* line 312: if filepath in pending_timers
TimerCheck(t) ==
    /\ timers[t].st = "called"
    /\ timers' = [timers EXCEPT ![t].st =
                    IF pending_timers[timers[t].path] # 0 THEN "del" ELSE "compile"]
    /\ UNCHANGED <<pc, main_error, roots, filepath, pending_timers, next_timer, iter,
                   generation, since, last_timer, pending_at_rebuild, fswatch,
                   notFswatch>>

\* line 313: del pending_timers[filepath]; KeyError when the entry is gone
TimerDel(t) ==
    /\ timers[t].st = "del"
    /\ IF pending_timers[timers[t].path] = 0
       THEN /\ timers' = [timers EXCEPT ![t].st = "keyerror"]
            /\ UNCHANGED pending_timers
       ELSE /\ pending_timers' = [pending_timers EXCEPT ![timers[t].path] = 0]
            /\ timers' = [timers EXCEPT ![t].st = "compile"]
    /\ UNCHANGED <<pc, main_error, roots, filepath, next_timer, iter, generation,
                   since, last_timer, pending_at_rebuild, fswatch,
                   notFswatch>>

\* how maybe_recompile_figure can end for each path, over all collaborators
CompileOutcomes ==
    [q \in EventPaths |-> {maybe_recompile_figure(q, env).status : env \in Envs}]

\* line 314: maybe_recompile_figure(filepath), on the Timer's thread
TimerCompile(t) ==
    /\ timers[t].st = "compile"
    /\ \E outcome \in CompileOutcomes[timers[t].path] :
          timers' = [timers EXCEPT
                        ![t].invoked_at = generation,
                        ![t].st = IF outcome = "raised" THEN "raised" ELSE "done"]
    /\ UNCHANGED <<pc, main_error, roots, filepath, pending_timers, next_timer, iter,
                   generation, since, last_timer, pending_at_rebuild, fswatch,
                   notFswatch>>

\* one tick passes while the main loop is blocked in readline, or has ended
Tick ==
    /\ pc \in {"readline", "crashed"}
    /\ \/ \E q \in EventPaths : since[q] < Delay
       \/ \E t \in TimerIds : timers[t].st = "waiting" /\ timers[t].remaining > 0
    /\ since' = [q \in EventPaths |-> IF since[q] < Delay THEN since[q] + 1 ELSE Delay]
    /\ timers' = [t \in TimerIds |->
                    IF timers[t].st = "waiting" /\ timers[t].remaining > 0
                    THEN [timers[t] EXCEPT !.remaining = @ - 1] ELSE timers[t]]
    /\ UNCHANGED <<pc, main_error, roots, filepath, pending_timers, next_timer, iter,
                   generation, last_timer, pending_at_rebuild, fswatch,
                   notFswatch>>

\* add_root(path) in another process, run from directory d, changes the file
FswatchAddRoot(d, path) ==
    /\ roots_file' = add_root(roots_file, d, path)
    /\ roots_file' # roots_file
    /\ UNCHANGED <<cwd, initial_file, added, calls, fsVars,
                   gateVars, trigVars, inVars>>

NextFswatch ==
    \/ Build
    \/ ReadRootsFile
    \/ \E line \in FswatchLines : ReadLine(line)
    \/ CheckPending
    \/ CancelOld
    \/ Schedule
    \/ CancelAllNext
    \/ Clear
    \/ \E t \in TimerIds : TimerRun(t)
    \/ \E t \in TimerIds : TimerCheck(t)
    \/ \E t \in TimerIds : TimerDel(t)
    \/ \E t \in TimerIds : TimerCompile(t)
    \/ Tick

\* the fswatch daemon, and command lines that add roots while it runs
NextFswatchRoots ==
    \/ NextFswatch
    \/ \E path \in CliRoots : FswatchAddRoot(CliDir, path)


(***************************************************************************)
(* watch_daemon_inotify: one loop, no timers.  Another process may write   *)
(* the roots file at any time through add_root.                            *)
(***************************************************************************)
NotesTxt == <<"notes", ".", "txt">>
EventNames == {FigSvg, LogoAfdesign, NotesTxt}

\* str(roots_file) as a watch path
RootsFileWatch == "roots"

InitInotify ==
    /\ i_pc = "build"
    /\ i_cwd \in Dirs
    /\ i_roots = <<>>
    /\ i_watches = {}
    /\ i_missing \in SUBSET Dirs
    /\ i_result = [status |-> "pending", effects |-> <<>>]

RECURSIVE add_watches_unguarded(_, _)
\* lines 247-251 without the try/except: the first add_watch that raises
\* ends the loop, and the function
add_watches_unguarded(rs, missing) ==
    IF rs = <<>> THEN [status |-> "returned", watches |-> {}]
    ELSE IF Head(rs) \in missing THEN [status |-> "raised", watches |-> {}]
    ELSE LET rest == add_watches_unguarded(Tail(rs), missing)
         IN  [status |-> rest.status, watches |-> {Head(rs)} \cup rest.watches]

RECURSIVE add_watches(_, _)
\* lines 247-251: add_watch for every root in turn; one that raises is logged
\* and the loop goes on
add_watches(rs, missing) ==
    IF rs = <<>> THEN [status |-> "returned", watches |-> {}]
    ELSE LET rest == add_watches(Tail(rs), missing)
         IN  IF Head(rs) \in missing THEN rest
             ELSE [status |-> rest.status, watches |-> {Head(rs)} \cup rest.watches]

\* lines 238-251: snapshot the roots, watch the roots file, then the roots
InotifyBuild ==
    /\ i_pc = "build"
    /\ i_roots' = get_roots(roots_file, i_cwd)
    /\ LET added_watches == add_watches(i_roots', i_missing)
       IN  /\ i_watches' = {RootsFileWatch} \cup added_watches.watches
           /\ i_pc' = IF added_watches.status = "raised" THEN "crashed"
                      ELSE "watching"
    /\ UNCHANGED <<i_cwd, i_missing, i_result, notInotify>>

\* lines 258-267: the roots file was written; drop the roots' watches, rebuild
InotifyRootsEvent ==
    /\ i_pc = "watching"
    /\ i_watches' = i_watches \ Range(i_roots)
    /\ i_pc' = "build"
    /\ UNCHANGED <<i_cwd, i_roots, i_missing, i_result,
                   notInotify>>

\* lines 269-271: a file of a watched root was written; the loop calls
\* maybe_recompile_figure itself, and an exception leaves the loop
InotifyFileEvent(root, name, env) ==
    /\ i_pc = "watching"
    /\ root \in i_watches \ {RootsFileWatch}
    /\ i_result' = maybe_recompile_figure(name, env)
    /\ i_pc' = IF i_result'.status = "raised" THEN "crashed" ELSE "watching"
    /\ UNCHANGED <<i_cwd, i_roots, i_watches, i_missing,
                   notInotify>>

\* add_root(p) in another process, run from directory d, changes the file
CliAddRoot(d, p) ==
    /\ roots_file' = add_root(roots_file, d, p)
    /\ roots_file' # roots_file
    /\ UNCHANGED <<cwd, initial_file, added, calls, inVars,
                   gateVars, trigVars, fsVars>>

NextInotify ==
    \/ InotifyBuild
    \/ InotifyRootsEvent
    \/ \E root \in Dirs, name \in EventNames, env \in Envs :
          InotifyFileEvent(root, name, env)
    \/ \E d \in Dirs, p \in Dirs : CliAddRoot(d, p)

(***************************************************************************)
(* Specifications                                                          *)
(***************************************************************************)
\* each specification runs one component; the others stay idle
IdleRoots ==
    /\ roots_file = <<"">>
    /\ cwd = "/w"
    /\ initial_file = roots_file
    /\ added = {}
    /\ calls = <<>>

IdleGate ==
    /\ inkscape_version = <<>>
    /\ gate = [status |-> "pending", number |-> <<>>, layout |-> "none"]

IdleTrigger ==
    /\ t_name = <<>>
    /\ t_env = [stale_svg |-> FALSE, osascript |-> "ok", inkscape |-> "ok",
                version |-> Inkscape_1_0rc1, clipboard |-> "ok"]
    /\ t_result = [status |-> "pending", effects |-> <<>>]

IdleFswatch == InitFswatch

IdleInotify ==
    /\ i_pc = "build"
    /\ i_cwd = "/w"
    /\ i_roots = <<>>
    /\ i_watches = {}
    /\ i_missing = {}
    /\ i_result = [status |-> "pending", effects |-> <<>>]

RootStoreInit == InitRoots /\ IdleGate /\ IdleTrigger /\ IdleFswatch /\ IdleInotify
SpecRoots == RootStoreInit /\ [][NextRoots]_vars

VersionGateInit == IdleRoots /\ InitGate /\ IdleTrigger /\ IdleFswatch /\ IdleInotify
SpecGate == VersionGateInit /\ [][NextGate]_vars

TriggerInit == IdleRoots /\ IdleGate /\ InitTrigger /\ IdleFswatch /\ IdleInotify
SpecTrigger == TriggerInit /\ [][NextTrigger]_vars

FswatchInit == IdleRoots /\ IdleGate /\ IdleTrigger /\ InitFswatch /\ IdleInotify
SpecFswatch == FswatchInit /\ [][NextFswatch]_vars

FswatchRootsInit == FswatchInit
SpecFswatchRoots == FswatchRootsInit /\ [][NextFswatchRoots]_vars

InotifyInit == IdleRoots /\ IdleGate /\ IdleTrigger /\ IdleFswatch /\ InitInotify
SpecInotify == InotifyInit /\ [][NextInotify]_vars

(***************************************************************************)
(* Properties of the conversion trigger (SpecTrigger)                      *)
(***************************************************************************)
Dispatched == t_result.status # "pending"

EffectsAt(op) == {i \in 1..Len(t_result.effects) : t_result.effects[i].op = op}

CollaboratorsWork ==
    /\ t_env.osascript = "ok"
    /\ t_env.inkscape = "ok"
    /\ t_env.clipboard = "ok"

\* C3: a stabilized event on an .svg path runs the inkscape export exactly once
\* for that path and then writes the snippet for the file's base name to the
\* clipboard.
C3_SvgConvertedOnce ==
    (Dispatched /\ CollaboratorsWork /\ suffix(t_name) = DotSvg) =>
        /\ Cardinality(EffectsAt("inkscape_export")) = 1
        /\ \E i \in EffectsAt("inkscape_export"), j \in EffectsAt("clipboard") :
              /\ i < j
              /\ t_result.effects[i].file = t_name
              /\ t_result.effects[j].file = stem(t_name)

\* C7: a stabilized event whose extension is neither .svg nor .afdesign runs
\* no converter and writes nothing to the clipboard.
C7_UnsupportedSkipped ==
    (Dispatched /\ suffix(t_name) \notin {DotSvg, DotAfdesign}) =>
        /\ t_result.status = "returned"
        /\ \A i \in 1..Len(t_result.effects) :
              t_result.effects[i].op \notin
                  {"inkscape_version", "inkscape_export", "osascript", "clipboard"}

C7_Witness ==
    /\ Dispatched
    /\ t_name = <<"fig", ".", "txt">>
    /\ t_env.clipboard = "ok"

\* C8: a stabilized event on an .afdesign path deletes a stale intermediate
\* .svg, then exports to .svg, then runs the inkscape export on the
\* intermediate, then writes the snippet to the clipboard, in that order.
C8_AfdesignPipeline ==
    (Dispatched /\ CollaboratorsWork /\ suffix(t_name) = DotAfdesign) =>
        \E e \in EffectsAt("osascript"), c \in EffectsAt("inkscape_export"),
           k \in EffectsAt("clipboard") :
              /\ e < c /\ c < k
              /\ t_result.effects[c].file = stem(t_name) \o DotSvg
              /\ t_result.effects[k].file = stem(t_name)
              /\ t_env.stale_svg =>
                    \E r \in EffectsAt("remove") :
                        r < e /\ t_result.effects[r].file = stem(t_name) \o DotSvg

(***************************************************************************)
(* Properties of the version gate (SpecGate)                               *)
(***************************************************************************)
\* (a, b, c) < (1, 0, 0), written out
BelowOneZeroZero(n) ==
    \/ n[1] < 1
    \/ n[1] = 1 /\ n[2] < 0
    \/ n[1] = 1 /\ n[2] = 0 /\ n[3] < 0

DotCount(s) == Cardinality({i \in 1..Len(s) : s[i] = "."})

\* C10: the first run of digits and dots is split on dots into integers and
\* right-padded with zeros to length 3; the legacy layout is chosen exactly
\* when that triple is below (1,0,0); 0.92.4 gives [0,92,4] and legacy,
\* 1.1-dev gives [1,1,0] and modern, 1.0rc1 gives [1,0,0] and modern.
C10_VersionGatedLayout ==
    /\ gate.status = "ok" =>
          /\ gate.layout \in {"legacy", "modern"}
          /\ gate.layout = "legacy" <=> BelowOneZeroZero(gate.number)
          /\ DotCount(FirstRun(inkscape_version)) <= 2 =>
                /\ Len(gate.number) = 3
                /\ \A i \in 1..3 :
                      i > DotCount(FirstRun(inkscape_version)) + 1 =>
                          gate.number[i] = 0
    /\ (gate.status # "pending" /\ inkscape_version = Inkscape_0_92_4) =>
          gate.number = <<0, 92, 4>> /\ gate.layout = "legacy"
    /\ (gate.status # "pending" /\ inkscape_version = Inkscape_1_1_dev) =>
          gate.number = <<1, 1, 0>> /\ gate.layout = "modern"
    /\ (gate.status # "pending" /\ inkscape_version = Inkscape_1_0rc1) =>
          gate.number = <<1, 0, 0>> /\ gate.layout = "modern"

C10_Witness ==
    /\ inkscape_version = Inkscape_1_0rc1
    /\ gate.status = "ok"
    /\ gate.layout = "modern"

(***************************************************************************)
(* Properties of the root store (SpecRoots)                                *)
(***************************************************************************)
Persisted == ReadRoots(roots_file)

\* C4: add_root(p) twice in a row leaves exactly one p in the persisted store,
\* the second call changes nothing, and the entries present before keep
\* their relative order.
C4_IdempotentAdd ==
    (/\ Len(calls) = 2
     /\ calls[1].op = "add_root" /\ calls[2].op = "add_root"
     /\ calls[1].arg = calls[2].arg /\ calls[1].dir = calls[2].dir) =>
        LET before == ReadRoots(calls[1].before)
        IN  /\ Occurrences(Persisted, calls[2].arg) = 1
            /\ calls[2].after = calls[2].before
            /\ Filter(Persisted, Range(before)) = before

\* C5: get_roots() contains the working directory, and the persisted file
\* holds only paths that were in it initially or were an argument of
\* add_root.
C5_CwdNotPersisted ==
    /\ (calls # <<>> /\ calls[Len(calls)].op = "get_roots") =>
          calls[Len(calls)].dir \in Range(calls[Len(calls)].ret)
    /\ Range(Persisted) \subseteq Range(ReadRoots(initial_file)) \cup added

\* C20: after add_root(p) returns, p is in the persisted roots file, whatever
\* the caller's working directory, so that get_roots() run from any other
\* directory returns p.
C20_AddRootPersists ==
    (calls # <<>> /\ calls[Len(calls)].op = "add_root") =>
        LET c == calls[Len(calls)]
        IN  /\ c.arg \in Range(ReadRoots(c.after))
            /\ \A d \in Dirs : c.arg \in Range(get_roots(c.after, d))

(***************************************************************************)
(* Properties of the fswatch daemon's debouncer (SpecFswatch)              *)
(***************************************************************************)
Invoked(t) == timers[t].invoked_at # -1

\* C1: in a burst of events for one path, each less than the debounce delay
\* after the previous one, only the Timer of the burst's last event invokes
\* maybe_recompile_figure: no Timer whose event was followed, within the
\* delay, by another event for its path ever invokes it.
C1_BurstCoalesced ==
    \A t \in TimerIds : timers[t].superseded => ~Invoked(t)

\* C2: once a rebuild has cleared the pending table, every Timer that was
\* pending when the rebuild began has been cancelled, and none of them invokes
\* maybe_recompile_figure after the clear.
C2_RebuildClearsPending ==
    \A t \in pending_at_rebuild :
        timers[t].gen < generation =>
            /\ timers[t].finished
            /\ Invoked(t) => timers[t].invoked_at = timers[t].gen

\* a step of the main loop that handles an ordinary event (lines 338-346)
OnEventStep == pc \in {"check_pending", "cancel_old", "schedule"} /\ pc' # pc

\* C6: handling an event for path A leaves every other path's pending-table
\* entry and every other path's Timer exactly as they were.
C6_DebounceIsolation ==
    [][OnEventStep =>
          /\ \A q \in EventPaths \ {filepath} : pending_timers'[q] = pending_timers[q]
          /\ \A t \in TimerIds :
                (timers[t].path \notin {filepath, NoPath}) =>
                    timers'[t] = timers[t]]_vars

\* an event for path A has cancelled and replaced A's Timer while path B's
\* older Timer is pending and still waiting
C6_Witness ==
    /\ pc = "readline"
    /\ \E a, b, c \in TimerIds :
          /\ a < b /\ b < c
          /\ timers[a].path = FigSvg /\ timers[a].finished
          /\ timers[b].path = LogoAfdesign /\ timers[b].st = "waiting"
          /\ ~timers[b].finished
          /\ pending_timers[LogoAfdesign] = b
          /\ timers[c].path = FigSvg /\ pending_timers[FigSvg] = c
          /\ generation = 0

\* C12: a Timer that the main loop has cancelled, and that has not yet
\* invoked maybe_recompile_figure, never invokes it afterwards, however the
\* cancel is interleaved with the Timer thread's wake-up and is_set test.
C12_CancelledNeverFires ==
    [][\A t \in TimerIds :
          (timers[t].finished /\ ~Invoked(t)) => timers'[t].invoked_at = -1]_vars

\* C14: the daemon leaves the reading of events for a rebuild exactly when
\* the line read is the roots file; that line is tested before anything else,
\* no Timer is ever created for it, and nothing else clears the table.
C14_RebuildSignal ==
    [][/\ (pc = "readline" /\ pc' # pc) =>
            (pc' = "cancel_all" <=> filepath' = RootsFilePath)
       /\ (pc = "readline" /\ pc' # pc /\ filepath' # RootsFilePath) =>
            pc' = "check_pending"
       /\ generation' # generation => filepath = RootsFilePath
       /\ filepath' = RootsFilePath =>
            /\ next_timer' = next_timer
            /\ \A t \in TimerIds : timers'[t].path # RootsFilePath]_vars

\* after a rebuild the daemon reads events again: a Timer was scheduled for
\* an ordinary event of the new generation
C14_Witness ==
    /\ generation >= 1
    /\ pc = "readline"
    /\ \E t \in TimerIds : timers[t].st # "unborn" /\ timers[t].gen >= 1

\* C16: a rebuild terminates fswatch first, then cancels the pending Timers
\* and clears the table, then reads the roots again; the new fswatch process
\* is given exactly the roots of that new read, and the daemon reads events
\* again.
C16_RebuildOrderAndFreshness ==
    [][/\ (pc = "readline" /\ pc' = "cancel_all") => ~fswatch'.running
       /\ (pc \in {"cancel_all", "clear"}) =>
            /\ ~fswatch'.running
            /\ roots' = roots
            /\ pc' \in {"cancel_all", "clear", "build"}
       /\ (pc = "clear" /\ pc' = "build") =>
            /\ \A q \in EventPaths : pending_timers'[q] = 0
            /\ \A t \in iter.todo \cup pending_at_rebuild :
                  timers[t].gen = generation => timers'[t].finished
       /\ (pc = "build" /\ pc' # pc) =>
            /\ pc' = "readline"
            /\ fswatch'.running
            /\ fswatch'.args = Append(get_roots(roots_file', cwd'), user_dir)]_vars

\* C15: no interleaving of the main loop's and the Timer callbacks' accesses
\* to the pending table ends in an error: the traversal of cancel_all does not
\* find the table changed under it, and no lookup or removal fails.
C15_TableAccessSafe ==
    /\ main_error = "none"
    /\ \A t \in TimerIds : timers[t].st # "keyerror"

\* C17: an event that arrives for a path after its Timer started firing and
\* before the callback removed the table entry is handled as a fresh event:
\* the handler that found the entry goes on to schedule a new Timer.
C17_RaceEventRescheduled ==
    [][(pc = "cancel_old" /\ pc' # pc) => pc' = "schedule"]_vars

\* a Timer that was started, is not cancelled and has not yet reached the
\* call of maybe_recompile_figure
Due(t) == timers[t].st \in {"waiting", "called", "del"} /\ ~timers[t].finished

\* C18: for every path at most one Timer is due to fire.
C18_SinglePendingPerPath ==
    \A q \in EventPaths :
        Cardinality({t \in TimerIds : timers[t].path = q /\ Due(t)}) <= 1

\* C19: every Timer that was started and has neither fired nor been cancelled
\* is the pending table's value for its path.
C19_NoOrphanedTimers ==
    \A t \in TimerIds :
        (timers[t].st = "waiting" /\ ~timers[t].finished) =>
            pending_timers[timers[t].path] = t

(***************************************************************************)
(* Properties of the inotify daemon (SpecInotify)                          *)
(***************************************************************************)
\* C9: no failure in the watch/convert path (converter missing or failing,
\* export helper failing, clipboard write failing) ends the daemon's loop:
\* after a failed conversion the daemon is still watching.
C9_FailuresAbsorbed ==
    i_result.status = "raised" => i_pc \in {"watching", "build"}

\* C13: the event loop hands every ordinary event to the debouncer and never
\* calls maybe_recompile_figure itself (i_result is the outcome of a call made
\* by the loop; the inotify daemon has no Timer that could make it).
C13_EveryEventDebounced ==
    i_pc \in {"build", "watching", "crashed"} => i_result.status = "pending"

\* C11: when add_watch fails for one root while the watches are built, the
\* other roots of the snapshot are still watched and the daemon goes on to
\* watch: the build never ends the daemon.
C11_RegistrationFailureSkipped ==
    [][(i_pc = "build" /\ i_pc' # i_pc) =>
          /\ i_pc' = "watching"
          /\ RootsFileWatch \in i_watches'
          /\ \A k \in 1..Len(i_roots') :
                i_roots'[k] \in i_watches' <=> i_roots'[k] \notin i_missing]_vars

\* the daemon is watching; the first root of its snapshot could not be
\* registered, a later one is
C11_Witness ==
    /\ i_pc = "watching"
    /\ Len(i_roots) >= 2
    /\ i_roots[1] \in i_missing
    /\ \E k \in 2..Len(i_roots) : i_roots[k] \in i_watches

====
